---- MODULE Spec2Model ----
(***************************************************************************)
(* Model of the in-process TA bridge (LocalInsecureTa / LocalTa) and of    *)
(* the nonsecure Gatekeeper capability layer (StdFilesystem,               *)
(* StdDirIterator).                                                        *)
(*                                                                         *)
(* Spec       the serialized channel bridge: front-end threads, the mutex  *)
(*            that guards the bridge, the two mpsc queues, the TA thread.  *)
(* SpecStore  the directory-backed failure-record store and its iterator.  *)
(***************************************************************************)
EXTENDS Integers, Sequences, FiniteSets, TLC

(* ------------------------------ bounds --------------------------------- *)
\* number of front-end (binder pool) threads
NCallers == 2
\* execute calls each front-end thread makes
MaxCalls == 2
\* width of usize in the model
UsizeBits == 3
\* longest blob written to the store
MaxBlob == 1

Callers == 1..NCallers
NoCaller == 0
Bytes == {1, 2}
\* request buffers a front end hands to execute
Requests == {<<b>> : b \in Bytes}

\* SerializedChannel::MAX_SIZE = usize::MAX
MAX_SIZE == 2^UsizeBits - 1
\* a buffer longer than MAX_SIZE; a Vec's length is a usize, so no buffer is,
\* and execute makes no such test
Oversized(d) == Len(d) > MAX_SIZE

\* the two ways a build treats a panic: unwind the panicking thread only, or
\* abort the process
PanicStrategies == {"unwind", "abort"}

VARIABLES
  \* --- bridge ---
  build,       \* panic strategy of the build
  procAlive,   \* the process has not been aborted
  lockHolder,  \* Mutex<LocalInsecureTa>: the thread holding the guard, or NoCaller
  poisoned,    \* Mutex poison flag
  in_q,        \* inbound mpsc queue (in_tx -> in_rx)
  out_q,       \* outbound mpsc queue (out_tx -> out_rx)
  taPc,        \* TA thread: "build", "recv", "process", "send", "dead"
  cur,         \* req_data held by the TA thread
  rsp,         \* rsp_data held by the TA thread
  inEngine,    \* number of entries into ta.process that have not returned
  payload,     \* the request buffer each front-end thread passes to execute
  pc,          \* front-end thread: "idle", "locked", "wait", "panicked"
  req,         \* req_data of the call the thread is in
  calls,       \* execute calls the thread has started
  sent,        \* per thread: the requests it passed to execute, in order
  results,     \* per thread: the Ok(..) values execute returned, in order
  acqOrder,    \* history: requests in the order their callers acquired the mutex
  engineLog,   \* history: requests in the order the engine entered process
  rspCount,    \* history: number of responses the engine produced
  \* --- store ---
  fs,          \* directory contents: entry -> blob or Absent
  shadow,      \* history: name -> last written blob, or Absent (kept while no fault)
  everFault,   \* history: some store operation hit an I/O fault
  lastOp,      \* the last store operation and its result
  iter,        \* StdDirIterator: remaining ReadDir items, or NoIter
  yielded,     \* names the drain has yielded to its consumer
  listed,      \* history: entries present when list() was called
  unreadable,  \* history: entries of this drain whose read failed
  \* --- clock ---
  timeBits,       \* width of time_t on the target
  overflowChecks, \* the build panics on integer overflow (otherwise it wraps)
  bootTime,       \* CLOCK_BOOTTIME as the kernel holds it: [sec, nsec]
  clockLast,      \* the last call of StdClock::now: what was read, what it returned
  clockPrev,      \* history: the call before it
  \* --- startup ---
  mainPc,      \* position of the main thread in inner_main
  dirState,    \* what the failure-record directory path refers to
  poolStarted, \* the binder thread pool has been started
  registered,  \* the services added to the service manager
  startErr,    \* the error inner_main returned, or "none"
  mainCall,    \* the main thread's own use of the channel: "idle", "locked", "wait"
  startLog     \* history: the startup requests completed, each with its outcome

bridgeVars == <<payload, build, procAlive, lockHolder, poisoned, in_q, out_q, taPc, cur, rsp,
                inEngine, pc, req, calls, sent, results, acqOrder, engineLog, rspCount>>
storeVars == <<fs, shadow, everFault, lastOp, iter, yielded, listed, unreadable>>
clockVars == <<timeBits, overflowChecks, bootTime, clockLast, clockPrev>>
startVars == <<mainPc, dirState, poolStarted, registered, startErr, mainCall, startLog>>
vars == <<bridgeVars, storeVars, clockVars, startVars>>

NoMsg == [data |-> <<>>, from |-> NoCaller]

(* ======================= the serialized channel bridge ================= *)
\* A queued buffer.  data is the Vec<u8> the channel carries; from is a history
\* tag (the front-end thread the request came from) that no action reads to
\* decide what to do.
Msg(d, c) == [data |-> d, from |-> c]

\* The engine is an external collaborator (ta.process); it is stubbed as the
\* echo engine: response = request ++ [0xFF].
EngineProcess(m) == Msg(Append(m.data, 255), m.from)

\* ta.process returns to the TA loop before the loop goes on: the entry is left.
EngineExitAsync(n) == n
EngineExit(n) == n - 1

\* A panic is only logged by the hook; whether it takes the process down is the
\* build's panic strategy.
PanicAborts == build = "abort"

\* Mutex::lock blocks while another thread holds the guard.
MutexFreeNoGuard == TRUE
MutexFree == lockHolder = NoCaller

\* The guard is held by the caller through the whole of execute: after
\* in_tx.send the holder is still the caller.
HolderAfterSendReleased(c) == NoCaller
HolderAfterSend(c) == c

\* Where the TA thread can fault: while building the engine or inside process.
TaCanFaultAnywhere == taPc \in {"build", "process", "recv"}
TaCanFault == taPc \in {"build", "process"}

\* in_rx / out_tx are owned by the TA thread and dropped when it unwinds.
TaDead == taPc = "dead"

\* Sum of the lengths of a per-thread family of sequences.
RECURSIVE SumLen(_, _)
SumLen(f, S) ==
  IF S = {} THEN 0
  ELSE LET c == CHOOSE x \in S : TRUE IN Len(f[c]) + SumLen(f, S \ {c})

InitChannel ==
  /\ build \in PanicStrategies
  /\ payload \in [Callers -> Requests]
  /\ procAlive = TRUE
  /\ lockHolder = NoCaller
  /\ poisoned = FALSE
  /\ in_q = <<>>
  /\ out_q = <<>>
  /\ cur = NoMsg
  /\ rsp = NoMsg
  /\ inEngine = 0
  /\ pc = [c \in Callers |-> "idle"]
  /\ req = [c \in Callers |-> <<>>]
  /\ calls = [c \in Callers |-> 0]
  /\ sent = [c \in Callers |-> <<>>]
  /\ results = [c \in Callers |-> <<>>]
  /\ acqOrder = <<>>
  /\ engineLog = <<>>
  /\ rspCount = 0

\* .expect(..) failing on front-end thread c: the thread panics.  Unwinding drops
\* the MutexGuard it holds, which poisons the mutex; an aborting build ends the
\* process instead.\* the state LocalInsecureTa::new leaves: the TA thread spawned, about to build
InitBridge == InitChannel /\ taPc = "build"

CallerPanic(c) ==
  /\ pc' = [pc EXCEPT ![c] = "panicked"]
  /\ IF PanicAborts
       THEN /\ procAlive' = FALSE
            /\ UNCHANGED <<lockHolder, poisoned>>
       ELSE /\ procAlive' = procAlive
            /\ poisoned' = (poisoned \/ lockHolder = c)
            /\ lockHolder' = IF lockHolder = c THEN NoCaller ELSE lockHolder

\* Binder delivers calls to the front ends once the thread pool runs and a
\* service has been added to the service manager.
FrontEndOpen == poolStarted /\ registered # {}

\* A front-end thread takes the channel: channel.lock().unwrap().
Lock(c) ==
  /\ procAlive
  /\ FrontEndOpen
  /\ pc[c] = "idle"
  /\ calls[c] < MaxCalls
  /\ MutexFree
  /\ IF poisoned
       THEN /\ CallerPanic(c)
            /\ UNCHANGED <<req, calls, acqOrder>>
       ELSE /\ lockHolder' = c
            /\ pc' = [pc EXCEPT ![c] = "locked"]
            /\ calls' = [calls EXCEPT ![c] = @ + 1]
            /\ req' = [req EXCEPT ![c] = payload[c]]
            /\ acqOrder' = Append(acqOrder, Msg(payload[c], c))
            /\ UNCHANGED <<procAlive, poisoned>>
  /\ UNCHANGED <<storeVars, clockVars, startVars, payload, build, in_q, out_q, taPc, cur, rsp, inEngine, sent, results,
                 engineLog, rspCount>>

\* execute, first half: self.in_tx.send(req_data.to_vec()).expect(..)
ExecuteSend(c) ==
  /\ procAlive
  /\ pc[c] = "locked"
  /\ IF TaDead
       THEN /\ CallerPanic(c)
            /\ UNCHANGED <<in_q, sent>>
       ELSE /\ in_q' = Append(in_q, Msg(req[c], c))
            /\ sent' = [sent EXCEPT ![c] = Append(@, req[c])]
            /\ pc' = [pc EXCEPT ![c] = "wait"]
            /\ lockHolder' = HolderAfterSend(c)
            /\ UNCHANGED <<procAlive, poisoned>>
  /\ UNCHANGED <<storeVars, clockVars, startVars, payload, build, out_q, taPc, cur, rsp, inEngine, req, calls, results,
                 acqOrder, engineLog, rspCount>>

\* execute, second half: Ok(self.out_rx.recv().expect(..)); the caller then
\* drops the guard.  recv blocks while the queue is empty and out_tx is alive.
ExecuteRecv(c) ==
  /\ procAlive
  /\ pc[c] = "wait"
  /\ IF out_q # <<>>
       THEN /\ results' = [results EXCEPT ![c] = Append(@, Head(out_q))]
            /\ out_q' = Tail(out_q)
            /\ pc' = [pc EXCEPT ![c] = "idle"]
            /\ lockHolder' = IF lockHolder = c THEN NoCaller ELSE lockHolder
            /\ UNCHANGED <<procAlive, poisoned>>
       ELSE /\ TaDead
            /\ CallerPanic(c)
            /\ UNCHANGED <<results, out_q>>
  /\ UNCHANGED <<storeVars, clockVars, startVars, payload, build, in_q, taPc, cur, rsp, inEngine, req, calls, sent,
                 acqOrder, engineLog, rspCount>>

\* TA thread: let mut ta = build_ta(..)
TaBuild ==
  /\ procAlive
  /\ taPc = "build"
  /\ taPc' = "recv"
  /\ UNCHANGED <<storeVars, clockVars, startVars, payload, build, procAlive, lockHolder, poisoned, in_q, out_q, cur, rsp,
                 inEngine, pc, req, calls, sent, results, acqOrder, engineLog, rspCount>>

\* TA thread: in_rx.recv() returns the next request and ta.process is entered.
\* (in_tx lives in the bridge, which the registered services keep alive, so
\* recv never fails.)
TaRecvBeforeBuild ==
  /\ procAlive
  /\ taPc \in {"build", "recv"}
  /\ in_q # <<>>
  /\ cur' = Head(in_q)
  /\ in_q' = Tail(in_q)
  /\ taPc' = "process"
  /\ inEngine' = inEngine + 1
  /\ engineLog' = Append(engineLog, Head(in_q))
  /\ UNCHANGED <<storeVars, clockVars, startVars, payload, build, procAlive, lockHolder, poisoned, out_q, rsp, pc, req, calls,
                 sent, results, acqOrder, rspCount>>
TaRecv ==
  /\ procAlive
  /\ taPc = "recv"
  /\ in_q # <<>>
  /\ cur' = Head(in_q)
  /\ in_q' = Tail(in_q)
  /\ taPc' = "process"
  /\ inEngine' = inEngine + 1
  /\ engineLog' = Append(engineLog, Head(in_q))
  /\ UNCHANGED <<storeVars, clockVars, startVars, payload, build, procAlive, lockHolder, poisoned, out_q, rsp, pc, req, calls,
                 sent, results, acqOrder, rspCount>>

\* TA thread: ta.process(&req_data) returns rsp_data.
TaProcessSkipsSend ==
  /\ procAlive
  /\ taPc = "process"
  /\ rsp' = EngineProcess(cur)
  /\ inEngine' = EngineExit(inEngine)
  /\ rspCount' = rspCount + 1
  /\ taPc' = "recv"
  /\ UNCHANGED <<storeVars, clockVars, startVars, payload, build, procAlive, lockHolder, poisoned, in_q, out_q, cur, pc, req,
                 calls, sent, results, acqOrder, engineLog>>
TaProcess ==
  /\ procAlive
  /\ taPc = "process"
  /\ rsp' = EngineProcess(cur)
  /\ inEngine' = EngineExit(inEngine)
  /\ rspCount' = rspCount + 1
  /\ taPc' = "send"
  /\ UNCHANGED <<storeVars, clockVars, startVars, payload, build, procAlive, lockHolder, poisoned, in_q, out_q, cur, pc, req,
                 calls, sent, results, acqOrder, engineLog>>

\* TA thread: out_tx.send(rsp_data).  (out_rx lives in the bridge: send never
\* fails.)
TaSendDropsResponse ==
  /\ procAlive
  /\ taPc = "send"
  /\ taPc' = "recv"
  /\ UNCHANGED <<storeVars, clockVars, startVars, payload, build, procAlive, lockHolder, poisoned, in_q, out_q, cur, rsp,
                 inEngine, pc, req, calls, sent, results, acqOrder, engineLog, rspCount>>
TaSend ==
  /\ procAlive
  /\ taPc = "send"
  /\ out_q' = Append(out_q, rsp)
  /\ taPc' = "recv"
  /\ UNCHANGED <<storeVars, clockVars, startVars, payload, build, procAlive, lockHolder, poisoned, in_q, cur, rsp, inEngine, pc,
                 req, calls, sent, results, acqOrder, engineLog, rspCount>>

\* The engine faults: the TA thread panics.  Unwinding drops in_rx (and the
\* requests queued on it) and out_tx; an aborting build ends the process.
TaPanic ==
  /\ procAlive
  /\ TaCanFault
  /\ IF PanicAborts
       THEN /\ procAlive' = FALSE
            /\ UNCHANGED <<taPc, in_q, inEngine>>
       ELSE /\ taPc' = "dead"
            /\ in_q' = <<>>
            /\ inEngine' = 0
            /\ UNCHANGED procAlive
  /\ UNCHANGED <<storeVars, clockVars, startVars, payload, build, lockHolder, poisoned, out_q, cur, rsp, pc, req, calls, sent,
                 results, acqOrder, engineLog, rspCount>>

Next ==
  \/ \E c \in Callers : Lock(c)
  \/ \E c \in Callers : ExecuteSend(c)
  \/ \E c \in Callers : ExecuteRecv(c)
  \/ TaBuild
  \/ TaRecv
  \/ TaProcess
  \/ TaSend
  \/ TaPanic

(* ======================= the failure-record store ====================== *)
\* filenames the engine uses (valid Strings)
Names == {"a", "b"}
\* a directory entry whose file_name() is not valid UTF-8 (to_str() is None)
BadEntry == "bad"
Entries == Names \cup {BadEntry}
\* a directory slot: no file, or a file holding data
Absent == [exists |-> FALSE, data |-> <<>>]
File(d) == [exists |-> TRUE, data |-> d]
\* no StdDirIterator is open
NoIter == [open |-> FALSE, rest |-> <<>>]
OpenIter(q) == [open |-> TRUE, rest |-> q]

\* Vec<u8> contents of length <= MaxBlob
Blobs == UNION {[1..n -> Bytes] : n \in 0..MaxBlob}

\* GK_DIR, as path components
StoreDir == <<"data", "vendor", "gatekeeper", "nonsecure">>

\* let mut path = self.dir.clone(); path.push(filename)
Push(dir, filename) == Append(dir, filename)
Paths == {Push(StoreDir, e) : e \in Entries}

\* entry.file_name(): the last component of the entry's path
FileName(path) == path[Len(path)]
\* OsStr::to_str(): None for a name that is not valid UTF-8
ToStr(name) == IF name \in Names THEN name ELSE "None"

\* proper prefixes of a buffer: what a write that faults midway leaves behind
ProperPrefixes(d) == {SubSeq(d, 1, n) : n \in 0..(Len(d) - 1)}

\* all orderings of a finite set, as sequences without repetition
Orderings(S) ==
  {q \in [1..Cardinality(S) -> S] : \A i, j \in 1..Cardinality(S) : q[i] = q[j] => i = j}

Range(q) == {q[i] : i \in 1..Len(q)}

Present == {p \in Paths : fs[p] # Absent}

NoOp == [op |-> "none", name |-> "None", res |-> "none", val |-> <<>>,
         pre |-> Absent, was |-> Absent, fault |-> FALSE]

\* the history of writes is followed only while every operation succeeded
NoShadow == [n \in Names |-> Absent]
ShadowNext(sh, faulted) == IF faulted THEN NoShadow ELSE sh

InitStore ==
  /\ fs \in {f \in [Paths -> {Absent, File(<<>>)}] : \A n \in Names : f[Push(StoreDir, n)] = Absent}
  /\ shadow = NoShadow
  /\ everFault = FALSE
  /\ lastOp = NoOp
  /\ iter = NoIter
  /\ yielded = <<>>
  /\ listed = {}
  /\ unreadable = {}

\* fs::read(&path).map_err(|e| Error::NotFound): the result of read
ReadResult(pre, fault) ==
  IF fault \/ pre = Absent THEN "NotFound" ELSE "Ok"

\* StdFilesystem::read
FsRead(name, fault) ==
  LET path == Push(StoreDir, name)
      r == ReadResult(fs[path], fault) IN
  /\ iter = NoIter
  /\ lastOp' = [op |-> "read", name |-> name, res |-> r,
                val |-> IF r = "Ok" THEN fs[path].data ELSE <<>>,
                pre |-> fs[path], was |-> shadow[name], fault |-> fault]
  /\ everFault' = (everFault \/ fault)
  /\ shadow' = ShadowNext(shadow, everFault')
  /\ yielded' = <<>>
  /\ listed' = {}
  /\ unreadable' = {}
  /\ UNCHANGED <<bridgeVars, clockVars, startVars, fs, iter>>

\* fs::write(&path, data): what the file holds afterwards
WriteNoTruncate(pre, data) ==
  IF Len(pre.data) > Len(data)
    THEN data \o SubSeq(pre.data, Len(data) + 1, Len(pre.data))
    ELSE data
WriteContents(pre, data) == data

\* StdFilesystem::write
FsWrite(name, data, fault) ==
  LET path == Push(StoreDir, name) IN
  /\ iter = NoIter
  /\ IF fault
       THEN \E left \in {fs[path]} \cup {File(d) : d \in ProperPrefixes(data)} :
              fs' = [fs EXCEPT ![path] = left]
       ELSE fs' = [fs EXCEPT ![path] = File(WriteContents(fs[path], data))]
  /\ lastOp' = [op |-> "write", name |-> name,
                res |-> IF fault THEN "Internal" ELSE "Ok",
                val |-> data, pre |-> fs[path], was |-> shadow[name], fault |-> fault]
  /\ everFault' = (everFault \/ fault)
  /\ shadow' = ShadowNext([shadow EXCEPT ![name] = File(data)], everFault')
  /\ yielded' = <<>>
  /\ listed' = {}
  /\ unreadable' = {}
  /\ UNCHANGED <<bridgeVars, clockVars, startVars, iter>>

\* fs::remove_file(&path).map_err(|e| Error::NotFound)
DeleteResult(pre, fault) ==
  IF fault \/ pre = Absent THEN "NotFound" ELSE "Ok"

\* StdFilesystem::delete
FsDeleteClearsDir(name, fault) ==
  LET path == Push(StoreDir, name)
      r == DeleteResult(fs[path], fault) IN
  /\ iter = NoIter
  /\ fs' = IF r = "Ok" THEN [p \in Paths |-> Absent] ELSE fs
  /\ lastOp' = [op |-> "delete", name |-> name, res |-> r, val |-> <<>>,
                pre |-> fs[path], was |-> shadow[name], fault |-> fault]
  /\ everFault' = (everFault \/ fault)
  /\ shadow' = ShadowNext([shadow EXCEPT ![name] = Absent], everFault')
  /\ yielded' = <<>>
  /\ listed' = {}
  /\ unreadable' = {}
  /\ UNCHANGED <<bridgeVars, clockVars, startVars, iter>>
FsDelete(name, fault) ==
  LET path == Push(StoreDir, name)
      r == DeleteResult(fs[path], fault) IN
  /\ iter = NoIter
  /\ fs' = IF r = "Ok" THEN [fs EXCEPT ![path] = Absent] ELSE fs
  /\ lastOp' = [op |-> "delete", name |-> name, res |-> r, val |-> <<>>,
                pre |-> fs[path], was |-> shadow[name], fault |-> fault]
  /\ everFault' = (everFault \/ fault)
  /\ shadow' = ShadowNext([shadow EXCEPT ![name] = Absent], everFault')
  /\ yielded' = <<>>
  /\ listed' = {}
  /\ unreadable' = {}
  /\ UNCHANGED <<bridgeVars, clockVars, startVars, iter>>

\* StdFilesystem::list: fs::read_dir(&self.dir); the directory is enumerated in
\* an order the OS chooses
FsList(fault) ==
  /\ iter = NoIter
  /\ IF fault
       THEN iter' = iter /\ yielded' = <<>> /\ listed' = {} /\ unreadable' = {}
       ELSE /\ \E q \in Orderings(Present) : iter' = OpenIter(q)
            /\ yielded' = <<>>
            /\ listed' = Present
            /\ unreadable' = {}
  /\ lastOp' = [op |-> "list", name |-> "None",
                res |-> IF fault THEN "Internal" ELSE "Ok", val |-> <<>>,
                pre |-> Absent, was |-> Absent, fault |-> fault]
  /\ everFault' = (everFault \/ fault)
  /\ shadow' = ShadowNext(shadow, everFault')
  /\ UNCHANGED <<bridgeVars, clockVars, startVars, fs>>

\* StdDirIterator::next on the item ReadDir hands out (an entry, <<"Err">> for
\* Some(Err(e)), <<"End">> for None): "Some" with a name, or "None"
NextItem(item) ==
  IF item = <<"End">> \/ item = <<"Err">> THEN "None"
  ELSE IF ToStr(FileName(item)) = "None" THEN "None"
  ELSE "Some"

\* One step of draining the iterator (for name in list()?): next() is called;
\* Some(name) is consumed and the loop goes on, None ends the loop and the
\* iterator is dropped.
DirNext(fault) ==
  /\ iter.open
  /\ LET item == IF fault THEN <<"Err">> ELSE IF iter.rest = <<>> THEN <<"End">>
                 ELSE Head(iter.rest)
         failed == IF fault /\ iter.rest # <<>> THEN {Head(iter.rest)} ELSE {}
         r == NextItem(item) IN
     /\ IF r = "Some"
          THEN /\ yielded' = Append(yielded, ToStr(FileName(item)))
               /\ iter' = OpenIter(Tail(iter.rest))
          ELSE /\ yielded' = yielded
               /\ iter' = NoIter
     /\ unreadable' = unreadable \cup failed
     /\ lastOp' = [op |-> "next", name |-> IF r = "Some" THEN ToStr(FileName(item)) ELSE "None",
                   res |-> r, val |-> <<>>, pre |-> Absent, was |-> Absent,
                   fault |-> fault]
  /\ everFault' = (everFault \/ fault)
  /\ shadow' = ShadowNext(shadow, everFault')
  /\ UNCHANGED <<bridgeVars, clockVars, startVars, fs, listed>>

NextStore ==
  \/ \E n \in Names, f \in BOOLEAN : FsRead(n, f)
  \/ \E n \in Names, d \in Blobs, f \in BOOLEAN : FsWrite(n, d, f)
  \/ \E n \in Names, f \in BOOLEAN : FsDelete(n, f)
  \/ \E f \in BOOLEAN : FsList(f)
  \/ \E f \in BOOLEAN : DirNext(f)

(* ========================== the monotonic clock ======================== *)
\* The literals of the conversion to milliseconds.
MsPerSec == 1000
NsecDivisor == 1000
\* clock_gettime leaves 0 <= tv_nsec < NsecPerSec.
NsecPerSec == 1000000000
\* Widths of the arithmetic on time_t, scaled down: on the narrow target the
\* product tv_sec * 1000 can leave the type, on the wide one it cannot for any
\* boot time in Times.
NarrowBits == 12
WideBits == 24
TimeWidths == {NarrowBits, WideBits}
\* Boot times the kernel can report.
MaxSec == 3
Seconds == 0..MaxSec
Nanos == {0, 999999, 1000000, 47999999, 48000000, NsecPerSec - 1}
Times == [sec : Seconds, nsec : Nanos]
\* rc of clock_gettime: 0, or -1 with errno set
ReturnCodes == {0, -1}

MaxTime(bits) == 2^(bits - 1) - 1
MinTime(bits) == 0 - 2^(bits - 1)
Fits(x, bits) == MinTime(bits) <= x /\ x <= MaxTime(bits)
\* two's-complement wrap-around of x to the width
Wrap(x, bits) ==
  LET r == x % (2^bits) IN IF r > MaxTime(bits) THEN r - 2^bits ELSE r
\* (s1, n1) <= (s2, n2), lexicographically
TimeLeq(t1, t2) == t1.sec < t2.sec \/ (t1.sec = t2.sec /\ t1.nsec <= t2.nsec)

\* time.tv_nsec / 1000 / 1000
NsecToMsModulo(nsec) == (nsec \div NsecDivisor) % NsecDivisor
NsecToMs(nsec) == (nsec \div NsecDivisor) \div NsecDivisor

\* An arithmetic step in time_t: the exact result when it fits; otherwise a
\* panic in a build with overflow checks and the wrapped result without.
Arith(x, bits, checks) ==
  IF Fits(x, bits) THEN [out |-> "ms", ms |-> x]
  ELSE IF checks THEN [out |-> "panic", ms |-> 0]
  ELSE [out |-> "ms", ms |-> Wrap(x, bits)]

\* StdClock::now, given what clock_gettime returned and left in `time`.
StdClockNow(rc, time, bits, checks) ==
  IF rc < 0 THEN [out |-> "ms", ms |-> 0]
  ELSE LET mul == Arith(time.sec * MsPerSec, bits, checks) IN
       IF mul.out = "panic" THEN mul
       ELSE Arith(mul.ms + NsecToMs(time.nsec), bits, checks)

NoReading == [rc |-> 0, sec |-> 0, nsec |-> 0, out |-> "none", ms |-> 0]

InitClock ==
  /\ timeBits \in TimeWidths
  /\ overflowChecks \in BOOLEAN
  /\ bootTime = [sec |-> 0, nsec |-> 0]
  /\ clockLast = NoReading
  /\ clockPrev = NoReading
\* the clock of the target the bridge and the store are explored on
InitClockWide == InitClock /\ timeBits = WideBits /\ ~overflowChecks

\* The engine calls clock.now(): real time has gone on to t, clock_gettime
\* returns rc and, when it succeeds, has stored t in `time`; a failing call
\* leaves `time` as initialised.  A panic ends the calling thread.
ClockNow(t, rc) ==
  LET time == IF rc < 0 THEN [sec |-> 0, nsec |-> 0] ELSE t
      r == StdClockNow(rc, time, timeBits, overflowChecks) IN
  /\ clockLast.out # "panic"
  /\ TimeLeq(bootTime, t)
  /\ bootTime' = t
  /\ clockPrev' = clockLast
  /\ clockLast' = [rc |-> rc, sec |-> time.sec, nsec |-> time.nsec, out |-> r.out, ms |-> r.ms]
  /\ UNCHANGED <<bridgeVars, storeVars, startVars, timeBits, overflowChecks>>

NextClock == \E t \in Times, rc \in ReturnCodes : ClockNow(t, rc)

(* =============================== startup =============================== *)
\* the services of the Gatekeeper HAL process
GkServices == {"sharedsecret", "gatekeeper"}
\* inner_main has reached join_thread_pool with its services registered
InitStarted ==
  /\ mainPc = "join"
  /\ dirState = "dir"
  /\ poolStarted = TRUE
  /\ registered = GkServices
  /\ startErr = "none"
  /\ mainCall = "idle"
  /\ startLog = <<>>

\* the process is launched: nothing started, no bridge yet
DirStates == {"missing", "uncheckable", "file", "dir"}
InitLaunch ==
  /\ mainPc = "start"
  /\ dirState \in DirStates
  /\ poolStarted = FALSE
  /\ registered = {}
  /\ startErr = "none"
  /\ mainCall = "idle"
  /\ startLog = <<>>

\* fs::exists(&dir): Err, Ok(false) or Ok(true)
Exists(st) ==
  IF st = "uncheckable" THEN "Err" ELSE IF st = "missing" THEN "false" ELSE "true"
\* dir.is_dir()
IsDirOrFile(st) == st \in {"dir", "file"}
IsDir(st) == st = "dir"

\* inner_main returns Err(e): main panics with "HAL service failed", and a
\* panic of the main thread ends the process under either panic strategy.
MainFails(e) ==
  /\ mainPc' = "exited"
  /\ startErr' = e
  /\ procAlive' = FALSE

\* binder::ProcessState::start_thread_pool()
GkStartPool ==
  /\ procAlive
  /\ mainPc = "start"
  /\ mainPc' = "pool"
  /\ poolStarted' = TRUE
  /\ UNCHANGED <<storeVars, clockVars, payload, build, procAlive, lockHolder, poisoned, in_q, out_q,
                 taPc, cur, rsp, inEngine, pc, req, calls, sent, results, acqOrder, engineLog,
                 rspCount, dirState, registered, startErr, mainCall, startLog>>

\* let exists = fs::exists(&dir).map_err(..)?; if !exists { return Err(..) }
GkExists ==
  /\ procAlive
  /\ mainPc = "pool"
  /\ IF Exists(dirState) = "true"
       THEN /\ mainPc' = "exists"
            /\ UNCHANGED <<startErr, procAlive>>
       ELSE MainFails(IF Exists(dirState) = "Err" THEN "dir-check" ELSE "dir-missing")
  /\ UNCHANGED <<storeVars, clockVars, payload, build, lockHolder, poisoned, in_q, out_q,
                 taPc, cur, rsp, inEngine, pc, req, calls, sent, results, acqOrder, engineLog,
                 rspCount, dirState, poolStarted, registered, mainCall, startLog>>

\* if !dir.is_dir() { return Err(..) }
GkIsDir ==
  /\ procAlive
  /\ mainPc = "exists"
  /\ IF IsDir(dirState)
       THEN /\ mainPc' = "checked"
            /\ UNCHANGED <<startErr, procAlive>>
       ELSE MainFails("dir-not-dir")
  /\ UNCHANGED <<storeVars, clockVars, payload, build, lockHolder, poisoned, in_q, out_q,
                 taPc, cur, rsp, inEngine, pc, req, calls, sent, results, acqOrder, engineLog,
                 rspCount, dirState, poolStarted, registered, mainCall, startLog>>

\* let channel = Arc::new(Mutex::new(LocalInsecureTa::new(dir))): the queues
\* are made and the TA thread is spawned.
GkNewChannel ==
  /\ procAlive
  /\ mainPc = "checked"
  /\ mainPc' = "created"
  /\ taPc' = "build"
  /\ UNCHANGED <<storeVars, clockVars, payload, build, procAlive, lockHolder, poisoned, in_q, out_q,
                 cur, rsp, inEngine, pc, req, calls, sent, results, acqOrder, engineLog,
                 rspCount, dirState, poolStarted, registered, startErr, mainCall, startLog>>

\* binder::add_service(name, service).map_err(..)? for the service added at
\* position `at`, which leads on to position `to`
AddService(name, at, to, ok) ==
  /\ procAlive
  /\ mainPc = at
  /\ IF ok
       THEN /\ registered' = registered \cup {name}
            /\ mainPc' = to
            /\ UNCHANGED <<startErr, procAlive>>
       ELSE /\ MainFails("register")
            /\ UNCHANGED registered
  /\ UNCHANGED <<storeVars, clockVars, payload, build, lockHolder, poisoned, in_q, out_q,
                 taPc, cur, rsp, inEngine, pc, req, calls, sent, results, acqOrder, engineLog,
                 rspCount, dirState, poolStarted, mainCall, startLog>>

GkAddSharedSecret(ok) == AddService("sharedsecret", "created", "ss", ok)
GkAddGatekeeper(ok) == AddService("gatekeeper", "ss", "join", ok)

NextGk ==
  \/ GkStartPool
  \/ GkExists
  \/ GkIsDir
  \/ GkNewChannel
  \/ \E ok \in BOOLEAN : GkAddSharedSecret(ok)
  \/ \E ok \in BOOLEAN : GkAddGatekeeper(ok)
  \/ Next

(* ---------------------------- KeyMint startup -------------------------- *)
\* the main thread, as a user of the channel
MainThread == NCallers + 1
\* the requests inner_main sends before registering: boot info and
\* attestation IDs (send_boot_info_and_attestation_id_info), then HAL info
Phases == <<"boot", "attest", "hal">>
PhaseNames == {"boot", "attest", "hal"}
AfterPhase(p) == IF p = "boot" THEN "attest" ELSE IF p = "attest" THEN "hal" ELSE "register"
\* the buffer of a startup request
StartupRequest == <<2>>
\* the services register_binder_services adds, in order
KmHals == <<"keymint", "sharedsecret">>

\* Whether a failed startup request ends startup.  The result of the helper is
\* propagated with `?`, and the helper returns a failure to send boot info;
\* the result of send_hal_info is only logged.
FailureFatalAlways(p) == TRUE
FailureFatal(p) == p = "boot"
\* The outcomes of a startup request that inner_main can tell apart.  What
\* the helper does with the outcome of its attestation-ID request is not
\* visible in inner_main: a failure it returns is a failure of the helper,
\* as for boot info, and one it swallows leaves no trace.
Outcomes(p) == IF p = "attest" THEN {TRUE} ELSE BOOLEAN

\* binder::ProcessState::start_thread_pool()
KmStartPool ==
  /\ procAlive
  /\ mainPc = "start"
  /\ mainPc' = "pool"
  /\ poolStarted' = TRUE
  /\ UNCHANGED <<storeVars, clockVars, payload, build, procAlive, lockHolder, poisoned, in_q, out_q,
                 taPc, cur, rsp, inEngine, pc, req, calls, sent, results, acqOrder, engineLog,
                 rspCount, dirState, registered, startErr, mainCall, startLog>>

\* let channel = Arc::new(Mutex::new(LocalTa::new()))
KmNewChannel ==
  /\ procAlive
  /\ mainPc = "pool"
  /\ mainPc' = "boot"
  /\ taPc' = "build"
  /\ UNCHANGED <<storeVars, clockVars, payload, build, procAlive, lockHolder, poisoned, in_q, out_q,
                 cur, rsp, inEngine, pc, req, calls, sent, results, acqOrder, engineLog,
                 rspCount, dirState, poolStarted, registered, startErr, mainCall, startLog>>

\* A startup request ends, with or without success: a fatal failure makes
\* inner_main return Err, anything else goes on to the next step.
PhaseEnds(ok) ==
  /\ startLog' = Append(startLog, [phase |-> mainPc, ok |-> ok])
  /\ IF ok \/ ~FailureFatal(mainPc)
       THEN /\ mainPc' = AfterPhase(mainPc)
            /\ UNCHANGED <<startErr, procAlive>>
       ELSE MainFails("boot-info")

\* The main thread starts a startup request: channel.lock().unwrap().  No
\* other thread has used the mutex yet, so it is neither held nor poisoned.
KmCallBegin ==
  /\ procAlive
  /\ mainPc \in PhaseNames
  /\ mainCall = "idle"
  /\ MutexFree
  /\ lockHolder' = MainThread
  /\ mainCall' = "locked"
  /\ UNCHANGED <<storeVars, clockVars, payload, build, procAlive, poisoned, in_q, out_q, taPc, cur,
                 rsp, inEngine, pc, req, calls, sent, results, acqOrder, engineLog, rspCount,
                 mainPc, dirState, poolStarted, registered, startErr, startLog>>

\* execute, first half, on the main thread
KmSend ==
  /\ procAlive
  /\ mainCall = "locked"
  /\ IF TaDead
       THEN /\ MainFails("panic")
            /\ UNCHANGED <<in_q, mainCall>>
       ELSE /\ in_q' = Append(in_q, Msg(StartupRequest, MainThread))
            /\ mainCall' = "wait"
            /\ UNCHANGED <<mainPc, startErr, procAlive>>
  /\ UNCHANGED <<storeVars, clockVars, payload, build, lockHolder, poisoned, out_q, taPc, cur, rsp,
                 inEngine, pc, req, calls, sent, results, acqOrder, engineLog, rspCount,
                 dirState, poolStarted, registered, startLog>>

\* execute, second half, on the main thread; the response says whether the
\* request succeeded, and the guard is dropped.
KmRecv(ok) ==
  /\ procAlive
  /\ mainCall = "wait"
  /\ ok \in Outcomes(mainPc)
  /\ IF out_q # <<>>
       THEN /\ out_q' = Tail(out_q)
            /\ lockHolder' = NoCaller
            /\ mainCall' = "idle"
            /\ PhaseEnds(ok)
       ELSE /\ TaDead
            /\ MainFails("panic")
            /\ UNCHANGED <<out_q, lockHolder, mainCall, startLog>>
  /\ UNCHANGED <<storeVars, clockVars, payload, build, poisoned, in_q, taPc, cur, rsp,
                 inEngine, pc, req, calls, sent, results, acqOrder, engineLog, rspCount,
                 dirState, poolStarted, registered>>

\* register_binder_services(&channel, ALL_HALS, SERVICE_INSTANCE)?: one
\* add_service per HAL, the first failure returned.
KmRegister(ok) ==
  LET n == Cardinality(registered) IN
  /\ procAlive
  /\ mainPc = "register"
  /\ IF ok
       THEN /\ registered' = registered \cup {KmHals[n + 1]}
            /\ mainPc' = IF n + 1 = Len(KmHals) THEN "join" ELSE "register"
            /\ UNCHANGED <<startErr, procAlive>>
       ELSE /\ MainFails("register")
            /\ UNCHANGED registered
  /\ UNCHANGED <<storeVars, clockVars, payload, build, lockHolder, poisoned, in_q, out_q,
                 taPc, cur, rsp, inEngine, pc, req, calls, sent, results, acqOrder, engineLog,
                 rspCount, dirState, poolStarted, mainCall, startLog>>

NextKm ==
  \/ KmStartPool
  \/ KmNewChannel
  \/ KmCallBegin
  \/ KmSend
  \/ \E ok \in BOOLEAN : KmRecv(ok)
  \/ \E ok \in BOOLEAN : KmRegister(ok)
  \/ Next

Init == InitBridge /\ InitStore /\ InitClockWide /\ InitStarted
\* the KeyMint process at launch
InitKm ==
  /\ InitChannel /\ taPc = "none" /\ \A c \in Callers : payload[c] = <<1>>
  /\ InitStore /\ InitClockWide /\ InitLaunch /\ dirState = "dir"
\* the Gatekeeper process at launch; every front-end thread sends the same
\* request, whose bytes no step inspects
InitGk ==
  /\ InitChannel /\ taPc = "none" /\ \A c \in Callers : payload[c] = <<1>>
  /\ InitStore /\ InitClockWide /\ InitLaunch
InitAnyClock ==
  /\ InitBridge /\ \A c \in Callers : payload[c] = <<1>>
  /\ InitStore /\ InitClock /\ InitStarted

Spec == Init /\ [][Next]_vars
\* No store operation reads the bridge: the store is explored with one
\* request value.
InitStoreRuns == Init /\ \A c \in Callers : payload[c] = <<1>>
SpecStore == InitStoreRuns /\ [][NextStore]_vars
SpecClock == InitAnyClock /\ [][NextClock]_vars
SpecGk == InitGk /\ [][NextGk]_vars
SpecKm == InitKm /\ [][NextKm]_vars

\* The steps of one front-end thread and of the TA thread that are not faults
\* of the engine.
CallerStep(c) == Lock(c) \/ ExecuteSend(c) \/ ExecuteRecv(c)
TaStep == TaBuild \/ TaRecv \/ TaProcess \/ TaSend
\* Fair scheduling: a thread that can run is eventually run, and build_ta and
\* ta.process return unless they fault.
Fairness ==
  /\ \A c \in Callers : WF_vars(CallerStep(c))
  /\ WF_vars(TaStep)
\* Which bytes a request holds has no influence on any step of the bridge: the
\* fair runs are explored with every thread sending the same request.
InitLive == Init /\ \A c \in Callers : payload[c] = <<1>>
SpecLive == InitLive /\ [][Next]_vars /\ Fairness

(* =============================== claims ================================ *)
TaTerminated == TaDead \/ ~procAlive
TaAlive == ~TaTerminated
\* front-end threads that have not yet made all their calls and are not in one
Blocked(c) == pc[c] = "idle" /\ calls[c] < MaxCalls
IsPrefix(p, q) == Len(p) <= Len(q) /\ \A i \in 1..Len(p) : p[i] = q[i]
\* requests held by the TA thread: in process, or processed and not yet sent
InTa == IF taPc \in {"process", "send"} THEN 1 ELSE 0

\* C1: in every reachable state at most one request is being processed by the
\* engine: the number of entries into ta.process that have not returned never
\* exceeds 1, whatever the front-end threads do.
C1_AtMostOneInEngine == inEngine \in {0, 1}

\* C1 witness: a request is in the engine while another front-end thread is
\* waiting for the channel.
C1_Witness ==
  /\ inEngine = 1
  /\ \E c, d \in Callers : c # d /\ pc[c] = "wait" /\ Blocked(d)

\* C2: every Ok(..) a caller gets is the response the engine produced for that
\* caller's own request, in the order of its calls (echo engine: request ++
\* [0xFF]); while the TA thread is alive no request and no response is lost or
\* duplicated; and when all N calls have returned the engine has processed
\* exactly N requests and exactly N responses have been returned.
C2_PairedNoLossNoDup ==
  /\ \A c \in Callers :
       /\ Len(results[c]) <= Len(sent[c])
       /\ \A i \in 1..Len(results[c]) :
            /\ results[c][i].from = c
            /\ results[c][i].data = Append(sent[c][i], 255)
  /\ TaAlive =>
       /\ SumLen(sent, Callers) = Len(engineLog) + Len(in_q)
       /\ rspCount = SumLen(results, Callers) + Len(out_q)
                       + (IF taPc = "send" THEN 1 ELSE 0)
       /\ Len(engineLog) = rspCount + inEngine
  /\ (TaAlive /\ \A c \in Callers : pc[c] = "idle" /\ calls[c] = MaxCalls) =>
       /\ Len(engineLog) = NCallers * MaxCalls
       /\ rspCount = NCallers * MaxCalls
       /\ \A c \in Callers : Len(results[c]) = MaxCalls

\* C2 witness: all calls have returned, and two callers that sent [0x01] and
\* [0x02] hold [0x01,0xFF] and [0x02,0xFF].
C2_Witness ==
  /\ TaAlive
  /\ \A c \in Callers : pc[c] = "idle" /\ Len(results[c]) = MaxCalls
  /\ \E c, d \in Callers :
       /\ sent[c][1] = <<1>> /\ results[c][1].data = <<1, 255>>
       /\ sent[d][1] = <<2>> /\ results[d][1].data = <<2, 255>>

\* C3: the requests the engine processes are, in order, the requests of the
\* callers in the order they acquired the mutex (none reordered or skipped);
\* a request enters the engine only after the response to every earlier one
\* has been produced (none batched); and at most the current holder's request
\* has been acquired but not yet processed.
C3_EngineOrderIsLockOrder ==
  /\ IsPrefix(engineLog, acqOrder)
  /\ Len(engineLog) - rspCount \in {0, 1}
  /\ Len(acqOrder) - Len(engineLog) \in {0, 1}

\* C3 witness: two different callers' requests have been processed one after
\* the other, the first one's response produced before the second entered.
C3_Witness ==
  /\ Len(engineLog) >= 2
  /\ engineLog[1].from # engineLog[2].from
  /\ acqOrder[1].from = engineLog[1].from
  /\ rspCount >= 1

\* C4 (as claimed): whenever an execute call has met a terminated TA thread
\* (its thread panicked on a broken queue endpoint or on the poisoned mutex),
\* the whole process has been terminated.
C4_FaultTerminatesProcess ==
  (\E c \in Callers : pc[c] = "panicked") => ~procAlive

\* C5: once the TA thread has terminated no execute call returns a response:
\* from then on no caller's list of Ok(..) results grows, and no response is
\* left in the outbound queue when the thread dies.
C5_NoResponseAfterTaDeath ==
  /\ [](TaDead => out_q = <<>>)
  /\ [][TaTerminated => results' = results]_vars

\* C5 witness: the TA thread died with a request in flight after having served
\* an earlier one; the thread that was waiting and a thread that came later
\* have both panicked without a response.
C5_Witness ==
  /\ TaDead
  /\ \A c \in Callers : pc[c] = "panicked"
  /\ \E c \in Callers : Len(sent[c]) > Len(results[c])
  /\ \E c \in Callers : Len(results[c]) >= 1

\* C6: the two queues form a one-request-in-flight rendezvous: each queue
\* holds at most one buffer, and queued requests + requests in the engine (or
\* held by the TA thread) + queued responses is at most 1.
C6_OneInFlight ==
  /\ Len(in_q) <= 1
  /\ Len(out_q) <= 1
  /\ Len(in_q) + inEngine + Len(out_q) <= 1
  /\ Len(in_q) + InTa + Len(out_q) <= 1

\* C6 witness: a response is queued while another front-end thread waits for
\* the channel.
C6_Witness ==
  /\ Len(out_q) = 1
  /\ \E c, d \in Callers : c # d /\ pc[c] = "wait" /\ Blocked(d) /\ calls[d] >= 1

\* C8: without I/O faults the store is a map from names to blobs: every name
\* holds exactly the blob of its most recent write not followed by a delete
\* (absent otherwise); read returns that blob, or NotFound when the name is
\* absent; delete succeeds exactly when the name is present and fails with
\* NotFound otherwise; write succeeds and replaces the contents.
C8_StoreIsMap ==
  ~everFault =>
    /\ \A n \in Names : fs[Push(StoreDir, n)] = shadow[n]
    /\ lastOp.op = "read" =>
         IF lastOp.was = Absent
           THEN lastOp.res = "NotFound"
           ELSE lastOp.res = "Ok" /\ lastOp.val = lastOp.was.data
    /\ lastOp.op = "delete" =>
         IF lastOp.was = Absent THEN lastOp.res = "NotFound" ELSE lastOp.res = "Ok"
    /\ lastOp.op = "write" =>
         lastOp.res = "Ok" /\ shadow[lastOp.name] = File(lastOp.val)

\* C8 witness: a read returns the one byte last written to a name, while the
\* other name, written and deleted, is absent.
C8_Witness ==
  /\ ~everFault
  /\ lastOp.op = "read" /\ lastOp.res = "Ok" /\ lastOp.val = <<2>>
  /\ \E n \in Names : n # lastOp.name /\ fs[Push(StoreDir, n)] = Absent

\* C9 (as claimed): read and delete report NotFound only for a name that is
\* absent, and an I/O fault on a name that is present is reported as Internal.
C9_MissingDistinctFromFault ==
  lastOp.op \in {"read", "delete"} =>
    /\ lastOp.res = "NotFound" => lastOp.pre = Absent
    /\ (lastOp.fault /\ lastOp.pre # Absent) => lastOp.res = "Internal"

\* C10 (as claimed): when the drain of list() ends, the names yielded are
\* exactly the valid names that were in the directory and whose entry could be
\* read, each once: undecodable and unreadable entries are skipped and the
\* entries after them are still yielded.
C10_DrainYieldsAllValid ==
  (lastOp.op = "next" /\ lastOp.res = "None") =>
    /\ Range(yielded) =
         {ToStr(FileName(p)) : p \in {e \in listed \ unreadable : ToStr(FileName(e)) # "None"}}
    /\ \A i, j \in 1..Len(yielded) : yielded[i] = yielded[j] => i = j

\* responses the TA thread has sent: those delivered plus those still queued
SendCount == SumLen(results, Callers) + Len(out_q)
\* the steps the TA thread can take
TaSteps == {<<"build", "recv">>, <<"recv", "process">>, <<"process", "send">>,
            <<"send", "recv">>}
\* the thread stopping: an abrupt fault
TaStops == {<<"build", "dead">>, <<"recv", "dead">>, <<"process", "dead">>,
            <<"send", "dead">>}

\* C14: the TA thread strictly alternates receive -> process -> send: every
\* change of its position is one step of that cycle or an abrupt stop, it
\* never stops normally and never resumes; a request is received only at recv,
\* a response is sent only at send and is the response to the request just
\* received; responses sent never exceed requests received, lag them by at
\* most one, and equal them whenever the thread is back at recv.
C14_TaLoopAlternates ==
  /\ [](taPc \in {"build", "recv", "process", "send", "dead"})
  /\ [](/\ SendCount <= Len(engineLog)
        /\ Len(engineLog) <= SendCount + 1
        /\ (taPc \in {"build", "recv"} => SendCount = Len(engineLog)))
  /\ [][/\ taPc' # taPc => <<taPc, taPc'>> \in TaSteps \cup TaStops
        /\ Len(engineLog') # Len(engineLog) =>
             /\ taPc = "recv" /\ taPc' = "process"
             /\ engineLog' = Append(engineLog, cur')
        /\ Len(out_q') > Len(out_q) =>
             /\ taPc = "send" /\ taPc' = "recv"
             /\ out_q' = Append(out_q, EngineProcess(cur))]_vars

\* C14 witness: the thread is back at recv after two full cycles.
C14_Witness ==
  /\ taPc = "recv"
  /\ Len(engineLog) = 2
  /\ SendCount = 2

\* C17: the bridge exists while the TA thread is still building the engine: in
\* that time nothing is processed, and every request already sent stays in the
\* inbound queue; finishing the build leaves the queue untouched; the engine
\* is built once (the thread never returns to building), and whenever a
\* request has entered the engine the build has been done; under fair
\* scheduling a request sent during the build is eventually taken into the
\* engine, unless the TA thread terminates.
C17_BuildThenProcess ==
  /\ (taPc = "build" /\ in_q # <<>>) ~>
        ((taPc = "process" /\ engineLog # <<>>) \/ TaTerminated)
  /\ [](taPc = "build" =>
          /\ engineLog = <<>> /\ inEngine = 0 /\ rspCount = 0
          /\ (procAlive => Len(in_q) = SumLen(sent, Callers)))
  /\ [](engineLog # <<>> => taPc # "build")
  /\ [][/\ taPc # "build" => taPc' # "build"
        /\ (taPc = "build" /\ taPc' # "build") =>
             /\ taPc' \in {"recv", "dead"}
             /\ engineLog' = engineLog
             /\ (taPc' = "recv" => in_q' = in_q)]_vars

\* C17 witness: a caller has sent its request and waits, the engine not yet
\* built.
C17_Witness ==
  /\ taPc = "build"
  /\ Len(in_q) = 1
  /\ \E c \in Callers : pc[c] = "wait"

\* C18: write(name, v) and delete(name) leave every other entry of the
\* directory as it was; read, list, a step of the drain, and a delete that
\* returns NotFound leave the whole directory as it was.
C18_StoreFrame ==
  [][/\ lastOp'.op \in {"write", "delete"} =>
          \A p \in Paths \ {Push(StoreDir, lastOp'.name)} : fs'[p] = fs[p]
     /\ (\/ lastOp'.op \in {"read", "list", "next"}
         \/ (lastOp'.op = "delete" /\ lastOp'.res = "NotFound")) => fs' = fs]_vars

\* C18 witness: a write has replaced the contents of one name while the other
\* name holds a blob.
C18_Witness ==
  /\ lastOp.op = "write" /\ lastOp.res = "Ok" /\ lastOp.pre # Absent
  /\ \E n \in Names : n # lastOp.name /\ fs[Push(StoreDir, n)] = File(<<1>>)

\* a front-end thread is inside a call: it holds the channel
InCall(c) == pc[c] \in {"locked", "wait"}

\* C16: with the TA thread alive and fair scheduling, every execute call that
\* has acquired the channel eventually returns (or the TA thread has
\* terminated); a thread that has returned no longer holds the channel; and
\* while the TA thread is alive and a call is under way some thread can take a
\* step: there is no deadlock.
C16_ExecuteReturns ==
  /\ \A c \in Callers : InCall(c) ~> (pc[c] = "idle" \/ TaTerminated)
  /\ [](\A c \in Callers : pc[c] = "idle" => lockHolder # c)
  /\ []((TaAlive /\ \E c \in Callers : InCall(c)) =>
          ENABLED (TaStep \/ \E c \in Callers : CallerStep(c)))

\* C16 witness: with the TA thread alive, one thread has returned from a call
\* and released the channel, and another thread has taken it.
C16_Witness ==
  /\ TaAlive
  /\ \E c, d \in Callers :
       /\ c # d
       /\ pc[c] = "idle" /\ Len(results[c]) = 1 /\ calls[c] = 1
       /\ lockHolder = d /\ pc[d] = "locked"

\* the seconds for which every result tv_sec * 1000 + 0..999 is in the type
InRange(sec, bits) == sec * MsPerSec + (MsPerSec - 1) <= MaxTime(bits)

\* C13 (as claimed): the results of any two consecutive calls of now() are
\* non-decreasing, failed reads included.
C13_NowNonDecreasing ==
  (clockPrev.out = "ms" /\ clockLast.out = "ms") => clockPrev.ms <= clockLast.ms

\* C15: a successful read (tv_sec, tv_nsec) with in-range seconds returns
\* tv_sec * 1000 + floor(tv_nsec / 1000000) and does not overflow; a failed
\* read returns exactly 0 and does not panic; and on in-range seconds the
\* result is monotone in the timespec, ordered lexicographically: of two
\* successful in-range reads (every ordered pair of boot times occurs as two
\* consecutive reads) the later one returns no less.
C15_NowValue ==
  /\ clockLast.rc < 0 => (clockLast.out = "ms" /\ clockLast.ms = 0)
  /\ (clockLast.out # "none" /\ clockLast.rc >= 0 /\ InRange(clockLast.sec, timeBits)) =>
        /\ clockLast.out = "ms"
        /\ clockLast.ms = clockLast.sec * 1000 + (clockLast.nsec \div 1000000)
  /\ (/\ clockPrev.out # "none" /\ clockPrev.rc >= 0 /\ clockLast.rc >= 0
      /\ InRange(clockPrev.sec, timeBits) /\ InRange(clockLast.sec, timeBits)
      /\ TimeLeq([sec |-> clockPrev.sec, nsec |-> clockPrev.nsec],
                 [sec |-> clockLast.sec, nsec |-> clockLast.nsec])) =>
        clockPrev.ms <= clockLast.ms

\* C15 witness: on the narrow target a read of (1 s, 999999999 ns) has
\* returned 1999 after a failed read returned 0.
C15_Witness ==
  /\ timeBits = NarrowBits
  /\ clockPrev.rc < 0 /\ clockPrev.ms = 0 /\ clockPrev.out = "ms"
  /\ clockLast.rc = 0 /\ clockLast.sec = 1 /\ clockLast.nsec = 999999999
  /\ clockLast.ms = 1999

\* the positions of inner_main after both directory checks have passed
PastDirCheck == {"checked", "created", "ss", "join"}
\* the bridge exists: LocalInsecureTa::new has spawned the TA thread
ChannelCreated == taPc # "none"

\* C11: Gatekeeper startup is gated on the failure-record directory: a
\* registered service, an existing bridge or a spawned TA thread implies that
\* the path is a directory and both checks have passed; with a path that is
\* missing, cannot be checked or is not a directory, startup never gets past
\* the checks, and once it has failed the process has exited with the
\* matching error, no service registered, no bridge and no TA thread.
C11_StartupGatedOnDir ==
  /\ (registered # {} \/ ChannelCreated) =>
        /\ dirState = "dir"
        /\ mainPc \in PastDirCheck \/ (mainPc = "exited" /\ startErr = "register")
  /\ dirState # "dir" =>
        /\ mainPc \in {"start", "pool", "exists", "exited"}
        /\ registered = {} /\ ~ChannelCreated /\ engineLog = <<>>
        /\ mainPc = "exited" =>
             /\ ~procAlive
             /\ startErr = (CASE dirState = "missing" -> "dir-missing"
                              [] dirState = "uncheckable" -> "dir-check"
                              [] OTHER -> "dir-not-dir")

\* C11 witness: the path is a regular file; startup has failed on is_dir after
\* the thread pool was started.
C11_Witness ==
  /\ dirState = "file" /\ mainPc = "exited" /\ startErr = "dir-not-dir"
  /\ poolStarted /\ ~procAlive /\ registered = {} /\ ~ChannelCreated

\* C12 (as claimed): in a run in which a registration step fails, no execute
\* call has been served.
C12_NoCallServedBeforeRegistrationFails ==
  startErr = "register" =>
    /\ engineLog = <<>>
    /\ \A c \in Callers : results[c] = <<>>

\* the startup requests completed so far, by name
PhasesDone == [i \in 1..Len(startLog) |-> startLog[i].phase]
\* a startup request of that name has failed
PhaseFailed(p) == \E i \in 1..Len(startLog) : startLog[i].phase = p /\ ~startLog[i].ok

====
